---- MODULE Spec2Model ----
(***************************************************************************)
(* Model of main.py, the training / evaluation driver of the crystal-graph *)
(* network: module-level config loading, the dataset split, the learning-  *)
(* rate multiplier, the epoch loop with best-checkpoint selection and the  *)
(* final test pass.                                                        *)
(*                                                                         *)
(* Floats are modelled as exact rationals <<num, den>>.  Validation        *)
(* metrics are small naturals counted in units of 1e9, so the initial      *)
(* best-so-far 1e10 is the number 10.                                      *)
(***************************************************************************)
EXTENDS Integers, Sequences, FiniteSets, TLC

VARIABLES
    pc,             \* position of the control flow
    args,           \* parsed command-line arguments (argparse namespace)
    config_yml,     \* content of the base YAML file, as yaml.safe_load returns it
    config,         \* the config mapping
    includes,       \* module-level variable `includes`
    inc_i,          \* position of `for include in includes`
    dataset_len,    \* len(dataset)
    train_dataset,  \* index set of dataset[:tr_sz]
    val_dataset,    \* index set of dataset[tr_sz : tr_sz + va_sz]
    test_dataset,   \* index set of dataset[tr_sz + va_sz : tr_sz + va_sz + te_sz]
    last_epoch,     \* scheduler.last_epoch
    lr_mult,        \* last result of lr_lambda_fun
    epoch,          \* loop variable of the training loop (-1: not bound yet)
    batch_i,        \* batches consumed in the running pass
    model,          \* model parameters, identified by the number of optimizer steps behind them
    mae_error,      \* validation metric of the running epoch
    best_mae_error,
    is_best,
    ckpt_calls,     \* the save_checkpoint invocations so far
    checkpoint_file,\* checkpoint.pth.tar  (<<>> while absent)
    best_file,      \* model_best.pth.tar  (<<>> while absent)
    test_targets,
    test_preds,
    test_cif_ids,
    csv_rows,       \* rows of test_results.csv
    events,         \* trace of the steps taken by main()
    val_history     \* validation metrics returned so far, one per epoch

cfgVars   == <<args, config_yml, includes, inc_i>>
splitVars == <<dataset_len, train_dataset, val_dataset, test_dataset>>
lrVars    == <<last_epoch, lr_mult>>
loopVars  == <<epoch, batch_i, model, mae_error, best_mae_error, is_best,
               ckpt_calls, checkpoint_file, best_file, events, val_history>>
testVars  == <<test_targets, test_preds, test_cif_ids, csv_rows>>
vars      == <<pc, config, cfgVars, splitVars, lrVars, loopVars, testVars>>

-----------------------------------------------------------------------------
(* Bounds *)

MaxIncludes       == 2
MaxLen            == 5
MaxSize           == 2
MaxWarmup         == 2
MaxMilestoneLen   == 2
MaxMilestoneEpoch == 3
MaxLREpoch        == 4
MaxEpochs         == 3
MaxBatchSize      == 2
MaxTrainSize      == 2
MaxValSize        == 2
MaxTestSize       == 2



-----------------------------------------------------------------------------
(* Rationals *)

RECURSIVE GCD(_, _)
GCD(a, b) == IF b = 0 THEN a ELSE GCD(b, a % b)

Abs(x) == IF x < 0 THEN -x ELSE x

RatNorm(n, d) ==
    LET g == GCD(Abs(n), Abs(d))
    IN  IF d < 0 THEN << (-n) \div g, (-d) \div g >> ELSE << n \div g, d \div g >>

RatAdd(x, y) == RatNorm(x[1] * y[2] + y[1] * x[2], x[2] * y[2])
RatSub(x, y) == RatNorm(x[1] * y[2] - y[1] * x[2], x[2] * y[2])
RatMul(x, y) == RatNorm(x[1] * y[1], x[2] * y[2])
RatOne       == <<1, 1>>

RECURSIVE RatPow(_, _)
RatPow(x, k) == IF k = 0 THEN RatOne ELSE RatMul(x, RatPow(x, k - 1))

-----------------------------------------------------------------------------
(* Mappings (python dict) *)

DictUpdate(d, other) == other @@ d
DictPop(d, k)        == [x \in (DOMAIN d) \ {k} |-> d[x]]
HasKey(d, k)         == k \in DOMAIN d
EmptyDict            == [x \in {} |-> 0]

-----------------------------------------------------------------------------
(* Config sections and files *)

Seq0(S, n) == UNION {[1..k -> S] : k \in 0..n}

TaskTypes == {"regression", "classification"}

DatasetNames == {"ulissigroup_co", "xie_grossman_mat_proj", "qm9"}

TaskSectionOf(name, type) == [dataset |-> name, type |-> type, metric |-> "mae"]
TaskSection(type)         == TaskSectionOf("ulissigroup_co", type)
DatasetSection(tr, va, te) == [src |-> "data", train_size |-> tr, val_size |-> va, test_size |-> te]
OptimSection(bs, me, w, f, ms, g) ==
    [batch_size |-> bs, max_epochs |-> me, warmup_epochs |-> w,
     warmup_factor |-> f, lr_milestones |-> ms, lr_gamma |-> g]

WarmupFactors == {<<1, 5>>, <<1, 2>>}
Gammas        == {<<1, 10>>, <<1, 2>>}
BaseOptim     == OptimSection(1, 1, 1, <<1, 5>>, <<2>>, <<1, 10>>)
OtherOptim    == OptimSection(2, 2, 1, <<1, 5>>, <<2>>, <<1, 10>>)

IncludePaths == {"a.yml", "b.yml"}

(* The value found under the `includes` key: a YAML sequence of paths, a   *)
(* plain string, or null.                                                 *)
IncludesValues ==
    {[kind |-> "list", items |-> s] : s \in Seq0(IncludePaths, MaxIncludes)}
        \cup {[kind |-> "str", items |-> <<>>], [kind |-> "null", items |-> <<>>]}

BaseSections ==
    {("task" :> TaskSection(t)) @@ ("dataset" :> DatasetSection(1, 1, 1)) @@ ("optim" :> BaseOptim)
        : t \in TaskTypes}

(* Base config files: mappings with or without an `includes` entry. *)
BaseFiles ==
    BaseSections \cup {("includes" :> v) @@ b : v \in IncludesValues, b \in BaseSections}

(* What an included YAML fragment may hold. *)
IncludeFiles ==
    { ("optim" :> OtherOptim),
      ("task" :> TaskSection("classification")),
      ("includes" :> [kind |-> "str", items |-> <<>>]) @@ ("optim" :> OtherOptim),
      EmptyDict }

ArgsSet ==
    [config_yml : {"cgcnn.yml"}, identifier : {"", "exp"}, num_workers : {0},
     print_every : {10}, seed : {0, 1}]

(* src/main.py:82-87 *)
Timestamp(a) == IF a.identifier # "" THEN <<"now", a.identifier>> ELSE <<"now">>

CmdOf(a) ==
    [config_yml |-> a.config_yml, identifier |-> a.identifier,
     num_workers |-> a.num_workers, print_every |-> a.print_every, seed |-> a.seed,
     timestamp |-> Timestamp(a),
     checkpoint_dir |-> <<"checkpoints">> \o Timestamp(a),
     results_dir |-> <<"results">> \o Timestamp(a),
     logs_dir |-> <<"logs">> \o Timestamp(a)]

DefaultArgs == [config_yml |-> "cgcnn.yml", identifier |-> "", num_workers |-> 0,
                print_every |-> 10, seed |-> 0]

MkConfig(t, d, o) ==
    ("task" :> t) @@ ("dataset" :> d) @@ ("optim" :> o) @@ ("cmd" :> CmdOf(DefaultArgs))

-----------------------------------------------------------------------------
(* Values the variables hold while their part of the program has not run *)

(* best_mae_error = 1e10, in units of 1e9 *)
InitBest == 10

NoLR == [ok |-> TRUE, val |-> <<0, 1>>, err |-> ""]

IdleCfg   == /\ args = DefaultArgs
             /\ config_yml = EmptyDict
             /\ includes = [kind |-> "null", items |-> <<>>]
             /\ inc_i = 0
IdleSplit == /\ dataset_len = 0
             /\ train_dataset = {}
             /\ val_dataset = {}
             /\ test_dataset = {}
IdleLR    == /\ last_epoch = -1
             /\ lr_mult = NoLR
IdleLoop  == /\ epoch = -1
             /\ batch_i = 0
             /\ model = 0
             /\ mae_error = 0
             /\ best_mae_error = InitBest
             /\ is_best = FALSE
             /\ ckpt_calls = <<>>
             /\ checkpoint_file = <<>>
             /\ best_file = <<>>
             /\ events = <<>>
             /\ val_history = <<>>
IdleTest  == /\ test_targets = <<>>
             /\ test_preds = <<>>
             /\ test_cif_ids = <<>>
             /\ csv_rows = <<>>

-----------------------------------------------------------------------------
(* Module-level config loading, src/main.py:57-98 *)

InitConfig ==
    /\ pc = "load_config"
    /\ args \in ArgsSet
    /\ config_yml \in BaseFiles
    /\ config = EmptyDict
    /\ includes = [kind |-> "null", items |-> <<>>]
    /\ inc_i = 0
    /\ IdleSplit /\ IdleLR /\ IdleLoop /\ IdleTest

(* config = yaml.safe_load(...); includes = config.get("includes", []) *)
LoadBase ==
    /\ pc = "load_config"
    /\ config' = config_yml
    /\ includes' = IF HasKey(config_yml, "includes")
                   THEN config_yml["includes"]
                   ELSE [kind |-> "list", items |-> <<>>]
    /\ pc' = "check_includes"
    /\ UNCHANGED <<args, config_yml, inc_i, splitVars, lrVars, loopVars, testVars>>

(* if not isinstance(includes, list): raise AttributeError *)
CheckIncludes ==
    /\ pc = "check_includes"
    /\ pc' = IF includes.kind # "list" THEN "AttributeError" ELSE "merge"
    /\ inc_i' = 0
    /\ UNCHANGED <<args, config_yml, config, includes, splitVars, lrVars, loopVars, testVars>>

(* one iteration of `for include in includes: config.update(...)` *)
MergeInclude ==
    /\ pc = "merge"
    /\ inc_i < Len(includes.items)
    /\ \E include_config \in IncludeFiles :
          config' = DictUpdate(config, include_config)
    /\ inc_i' = inc_i + 1
    /\ UNCHANGED <<pc, args, config_yml, includes, splitVars, lrVars, loopVars, testVars>>

(* config.pop("includes"): KeyError when the key is not there *)
PopIncludes ==
    /\ pc = "merge"
    /\ inc_i = Len(includes.items)
    /\ IF HasKey(config, "includes")
       THEN /\ config' = DictPop(config, "includes")
            /\ pc' = "inject_cmd"
       ELSE /\ config' = config
            /\ pc' = "KeyError"
    /\ UNCHANGED <<args, config_yml, includes, inc_i, splitVars, lrVars, loopVars, testVars>>

(* timestamp and directories, then config["cmd"] = args.__dict__ *)
InjectCmd ==
    /\ pc = "inject_cmd"
    /\ config' = DictUpdate(config, "cmd" :> CmdOf(args))
    /\ pc' = "config_loaded"
    /\ UNCHANGED <<args, config_yml, includes, inc_i, splitVars, lrVars, loopVars, testVars>>

NextConfig == LoadBase \/ CheckIncludes \/ MergeInclude \/ PopIncludes \/ InjectCmd

SpecConfig == InitConfig /\ [][NextConfig]_vars

\* C7: config loading fails only when `includes` is present and not a list;
\* otherwise (absent or a list) it completes with a mapping that has no
\* `includes` key and has a `cmd` key holding the run metadata.
C7_LoadsUnlessIncludesNotList ==
    /\ pc \in {"AttributeError", "KeyError"} =>
          (HasKey(config_yml, "includes") /\ config_yml["includes"].kind # "list")
    /\ pc = "config_loaded" =>
          (~HasKey(config, "includes") /\ HasKey(config, "cmd") /\ config["cmd"] = CmdOf(args))


-----------------------------------------------------------------------------
(* Dataset loading and split, src/main.py:115-146 *)

(* dataset[lo:hi] of a dataset of n samples, as a set of indices; python   *)
(* slicing clamps both ends to the length.                                *)
Slice(n, lo, hi) == {i \in 0..(n - 1) : lo <= i /\ i < hi}

(* assert len(dataset) > tr_sz + va_sz + te_sz *)
SplitAssertion(n, tr_sz, va_sz, te_sz) == n > tr_sz + va_sz + te_sz

InitSplit ==
    /\ pc = "main"
    /\ \E name \in DatasetNames \cup {"unknown"}, tr \in 0..MaxSize, va \in 0..MaxSize, te \in 0..MaxSize :
          config = MkConfig(TaskSectionOf(name, "regression"), DatasetSection(tr, va, te), BaseOptim)
    /\ IdleCfg /\ IdleSplit /\ IdleLR /\ IdleLoop /\ IdleTest

(* best_mae_error = 1e10; dataset = <Dataset>(src).shuffle() *)
LoadDataset ==
    /\ pc = "main"
    /\ best_mae_error' = InitBest
    /\ IF config["task"].dataset \in DatasetNames
       THEN /\ \E n \in 0..MaxLen : dataset_len' = n
            /\ pc' = "split"
       ELSE /\ dataset_len' = dataset_len
            /\ pc' = "NotImplementedError"
    /\ UNCHANGED <<config, cfgVars, train_dataset, val_dataset, test_dataset, lrVars, testVars,
                   epoch, batch_i, model, mae_error, is_best, ckpt_calls, checkpoint_file,
                   best_file, events, val_history>>

(* the assertion and the three slices *)
SplitDataset ==
    /\ pc = "split"
    /\ LET tr_sz == config["dataset"].train_size
           va_sz == config["dataset"].val_size
           te_sz == config["dataset"].test_size
       IN  IF SplitAssertion(dataset_len, tr_sz, va_sz, te_sz)
           THEN /\ train_dataset' = Slice(dataset_len, 0, tr_sz)
                /\ val_dataset'   = Slice(dataset_len, tr_sz, tr_sz + va_sz)
                /\ test_dataset'  = Slice(dataset_len, tr_sz + va_sz, tr_sz + va_sz + te_sz)
                /\ pc' = "split_done"
           ELSE /\ UNCHANGED <<train_dataset, val_dataset, test_dataset>>
                /\ pc' = "AssertionError"
    /\ UNCHANGED <<config, cfgVars, dataset_len, lrVars, loopVars, testVars>>

NextSplit == LoadDataset \/ SplitDataset

SpecSplit == InitSplit /\ [][NextSplit]_vars

IntRange(lo, hi) == lo..(hi - 1)

\* C3: whenever train_size + val_size + test_size <= len(dataset) the size
\* assertion passes and the splits are the contiguous ranges [0, tr),
\* [tr, tr+va), [tr+va, tr+va+te), pairwise disjoint, covering every index
\* when the sizes sum to len(dataset); the assertion fails only when the
\* sizes exceed len(dataset).
C3_SplitWhenSizesFit ==
    LET tr == config["dataset"].train_size
        va == config["dataset"].val_size
        te == config["dataset"].test_size
    IN  /\ pc = "AssertionError" => tr + va + te > dataset_len
        /\ pc = "split_done" =>
              /\ tr + va + te <= dataset_len
              /\ train_dataset = IntRange(0, tr)
              /\ val_dataset = IntRange(tr, tr + va)
              /\ test_dataset = IntRange(tr + va, tr + va + te)
              /\ train_dataset \cap val_dataset = {}
              /\ train_dataset \cap test_dataset = {}
              /\ val_dataset \cap test_dataset = {}
              /\ (tr + va + te = dataset_len =>
                    train_dataset \cup val_dataset \cup test_dataset = 0..(dataset_len - 1))


-----------------------------------------------------------------------------
(* Learning-rate multiplier, src/main.py:180-192 and 205 *)

(* bisect.bisect(a, x): the binary search of bisect_right, 0-based lo/hi *)
RECURSIVE bisect_search(_, _, _, _)
bisect_search(a, x, lo, hi) ==
    IF lo < hi
    THEN LET mid == (lo + hi) \div 2
         IN  IF x < a[mid + 1]
             THEN bisect_search(a, x, lo, mid)
             ELSE bisect_search(a, x, mid + 1, hi)
    ELSE lo

RECURSIVE bisect_left_search(_, _, _, _)
bisect_left_search(a, x, lo, hi) ==
    IF lo < hi
    THEN LET mid == (lo + hi) \div 2
         IN  IF a[mid + 1] < x
             THEN bisect_left_search(a, x, mid + 1, hi)
             ELSE bisect_left_search(a, x, lo, mid)
    ELSE lo

bisect_left(a, x) == bisect_left_search(a, x, 0, Len(a))

bisect(a, x) == bisect_search(a, x, 0, Len(a))

Returned(v) == [ok |-> TRUE, val |-> v, err |-> ""]
Raised(e)   == [ok |-> FALSE, val |-> <<0, 1>>, err |-> e]

(* current_epoch / float(warmup_epochs) raises ZeroDivisionError on 0.0 *)
lr_lambda_fun(optim, current_epoch) ==
    IF current_epoch <= optim.warmup_epochs
    THEN IF optim.warmup_epochs = 0
         THEN Raised("ZeroDivisionError")
         ELSE LET alpha == RatNorm(current_epoch, optim.warmup_epochs)
              IN  Returned(RatAdd(RatMul(optim.warmup_factor, RatSub(RatOne, alpha)), alpha))
    ELSE LET idx == bisect(optim.lr_milestones, current_epoch)
         IN  Returned(RatPow(optim.lr_gamma, idx))

(* What LambdaLR does on construction and on every step(): advance         *)
(* last_epoch and evaluate lr_lambda at it.                                *)
StepScheduler ==
    /\ last_epoch' = last_epoch + 1
    /\ lr_mult' = lr_lambda_fun(config["optim"], last_epoch + 1)

LROptims ==
    {OptimSection(1, 1, w, f, ms, g) :
        w \in 0..MaxWarmup, f \in WarmupFactors,
        ms \in Seq0(1..MaxMilestoneEpoch, MaxMilestoneLen), g \in Gammas}

InitLR ==
    /\ pc = "build_scheduler"
    /\ \E o \in LROptims :
          config = MkConfig(TaskSection("regression"), DatasetSection(1, 1, 1), o)
    /\ IdleCfg /\ IdleSplit /\ IdleLR /\ IdleLoop /\ IdleTest

(* scheduler = lr_scheduler.LambdaLR(optimizer, lr_lambda=lr_lambda_fun) *)
BuildScheduler ==
    /\ pc = "build_scheduler"
    /\ StepScheduler
    /\ pc' = IF lr_mult'.ok THEN "scheduler_built" ELSE lr_mult'.err
    /\ UNCHANGED <<config, cfgVars, splitVars, loopVars, testVars>>

(* scheduler.step(), taken on its own *)
LRStep ==
    /\ pc = "scheduler_built"
    /\ last_epoch < MaxLREpoch
    /\ StepScheduler
    /\ pc' = IF lr_mult'.ok THEN "scheduler_built" ELSE lr_mult'.err
    /\ UNCHANGED <<config, cfgVars, splitVars, loopVars, testVars>>

NextLR == BuildScheduler \/ LRStep

SpecLR == InitLR /\ [][NextLR]_vars

IsAscending(a) == \A i \in 1..Len(a) : \A j \in 1..Len(a) : i < j => a[i] <= a[j]

MilestonesBelow(a, e)   == Cardinality({i \in 1..Len(a) : a[i] < e})
MilestonesUpTo(a, e)    == Cardinality({i \in 1..Len(a) : a[i] <= e})

\* C1 (as stated): past the warmup, for ascending milestones, the multiplier
\* is lr_gamma ^ k with k the number of milestones strictly less than the
\* current epoch.
C1_GammaPowStrictlyBelow ==
    LET o == config["optim"]
    IN  (last_epoch > o.warmup_epochs /\ IsAscending(o.lr_milestones)) =>
            /\ lr_mult.ok
            /\ lr_mult.val = RatPow(o.lr_gamma, MilestonesBelow(o.lr_milestones, last_epoch))

\* C1 (amended): past the warmup, for ascending milestones, the multiplier
\* is lr_gamma ^ k with k the number of milestones less than or equal to the
\* current epoch: a milestone counts from the epoch equal to it.
C1_GammaPowUpTo ==
    LET o == config["optim"]
    IN  (last_epoch > o.warmup_epochs /\ IsAscending(o.lr_milestones)) =>
            /\ lr_mult.ok
            /\ lr_mult.val = RatPow(o.lr_gamma, MilestonesUpTo(o.lr_milestones, last_epoch))

C1_Witness ==
    LET o == config["optim"]
    IN  /\ pc = "scheduler_built"
        /\ last_epoch > o.warmup_epochs
        /\ Len(o.lr_milestones) = 2
        /\ o.lr_milestones[1] < o.lr_milestones[2]
        /\ o.lr_milestones[2] = last_epoch
        /\ lr_mult.val = RatPow(o.lr_gamma, 2)

\* C2: for every warmup_epochs >= 0 and every epoch in 0..warmup_epochs the
\* multiplier is returned (no failure) and equals
\* warmup_factor * (1 - epoch/warmup_epochs) + epoch/warmup_epochs,
\* which is warmup_factor at epoch 0 and 1 at epoch = warmup_epochs.
C2_WarmupInterpolates ==
    LET o == config["optim"]
        w == o.warmup_epochs
        f == o.warmup_factor
        e == last_epoch
    IN  (0 <= e /\ e <= w) =>
            /\ lr_mult.ok
            /\ lr_mult.val = RatNorm(f[1] * (w - e) + e * f[2], f[2] * w)
            /\ (e = 0 => lr_mult.val = RatNorm(f[1], f[2]))
            /\ (e = w => lr_mult.val = RatOne)


-----------------------------------------------------------------------------
(* Training loop and test phase, src/main.py:198-233, 236-400 *)

(* Validation metrics a pass may return, in units of 1e9 *)
MetricValues == {1, 2, InitBest, 2 * InitBest}

(* len(DataLoader(d, batch_size=bs)) *)
NumBatches(sz, bs) == (sz + bs - 1) \div bs

TrainBatches == NumBatches(Cardinality(train_dataset), config["optim"].batch_size)
ValBatches   == NumBatches(Cardinality(val_dataset), config["optim"].batch_size)
TestBatches  == NumBatches(Cardinality(test_dataset), config["optim"].batch_size)

SetMin(S) == CHOOSE x \in S : \A y \in S : x <= y
SetMax(S) == CHOOSE x \in S : \A y \in S : x >= y

(* data.y of sample j, and the denormalised output of the network with     *)
(* parameters m on sample j (evaluation mode: a function of both).         *)
TargetOf(j)  == <<"y", j>>
PredOf(m, j) == <<"out", m, j>>

(* the samples of batch b (0-based) of a loader without shuffling *)
BatchSamples(d, bs, b) ==
    LET lo == SetMin(d)
        n  == Cardinality(d)
        k  == IF (b + 1) * bs <= n THEN bs ELSE n - b * bs
    IN  [r \in 1..k |-> lo + b * bs + r - 1]

IsBest_AfterUpdate(type, err, best) ==
    IF type = "regression"
    THEN err < (IF err < best THEN err ELSE best)
    ELSE err > (IF err > best THEN err ELSE best)

IsBest_OrEqual(type, err, best) ==
    IF type = "regression" THEN err <= best ELSE err >= best

(* src/main.py:208-213 *)
IsBest(type, err, best) ==
    IF type = "regression" THEN err < best ELSE err > best

NewBest(type, err, best) ==
    IF type = "regression"
    THEN (IF err < best THEN err ELSE best)
    ELSE (IF err > best THEN err ELSE best)

CheckpointRecord_ZeroBased(e, m, best) ==
    [epoch |-> e, state_dict |-> m, best_mae_error |-> best, optimizer |-> m,
     normalizer |-> train_dataset, config |-> config]

(* the dict handed to save_checkpoint, src/main.py:215-222 *)
CheckpointRecord(e, m, best) ==
    [epoch |-> e + 1, state_dict |-> m, best_mae_error |-> best, optimizer |-> m,
     normalizer |-> train_dataset, config |-> config]

(* cgcnn.utils.save_checkpoint: writes the record, and a second, "best"    *)
(* copy when is_best.                                                      *)
save_checkpoint_file(state) == <<state>>
save_checkpoint_best(state, best, old) == IF best THEN <<state>> ELSE old

LoopOptims ==
    {OptimSection(bs, me, 1, <<1, 5>>, <<2>>, <<1, 10>>) :
        bs \in 1..MaxBatchSize, me \in 0..MaxEpochs}

(* The state on reaching the loop: dataset split, scheduler constructed. *)
Init ==
    /\ pc = "loop"
    /\ \E name \in {"ulissigroup_co", "qm9"}, type \in TaskTypes,
          tr \in 1..MaxTrainSize, va \in 1..MaxValSize, te \in 0..MaxTestSize,
          o \in LoopOptims :
          /\ config = MkConfig(TaskSectionOf(name, type), DatasetSection(tr, va, te), o)
          /\ dataset_len = tr + va + te + 1
          /\ train_dataset = Slice(dataset_len, 0, tr)
          /\ val_dataset = Slice(dataset_len, tr, tr + va)
          /\ test_dataset = Slice(dataset_len, tr + va, tr + va + te)
          /\ last_epoch = 0
          /\ lr_mult = lr_lambda_fun(o, 0)
    /\ IdleCfg /\ IdleLoop /\ IdleTest

(* for epoch in range(config["optim"]["max_epochs"]) *)
LoopHead ==
    /\ pc = "loop"
    /\ IF epoch + 1 < config["optim"].max_epochs
       THEN /\ epoch' = epoch + 1
            /\ pc' = "train"
       ELSE /\ epoch' = epoch
            /\ pc' = "load_best"
    /\ batch_i' = 0
    /\ UNCHANGED <<config, cfgVars, splitVars, lrVars, testVars, model, mae_error,
                   best_mae_error, is_best, ckpt_calls, checkpoint_file, best_file,
                   events, val_history>>

TrainBatch_SteppingScheduler ==
    /\ pc = "train"
    /\ batch_i < TrainBatches
    /\ model' = model + 1
    /\ batch_i' = batch_i + 1
    /\ StepScheduler
    /\ events' = Append(events, "train")
    /\ UNCHANGED <<pc, config, cfgVars, splitVars, testVars, epoch, mae_error,
                   best_mae_error, is_best, ckpt_calls, checkpoint_file, best_file,
                   val_history>>

(* one batch of train(): forward, loss, backward, optimizer.step() *)
TrainBatch ==
    /\ pc = "train"
    /\ batch_i < TrainBatches
    /\ model' = model + 1
    /\ batch_i' = batch_i + 1
    /\ events' = Append(events, "train")
    /\ UNCHANGED <<pc, config, cfgVars, splitVars, lrVars, testVars, epoch, mae_error,
                   best_mae_error, is_best, ckpt_calls, checkpoint_file, best_file,
                   val_history>>

(* train() returns; validate(val_loader, ...) begins *)
TrainDone ==
    /\ pc = "train"
    /\ batch_i = TrainBatches
    /\ pc' = "validate"
    /\ batch_i' = 0
    /\ UNCHANGED <<config, cfgVars, splitVars, lrVars, testVars, epoch, model, mae_error,
                   best_mae_error, is_best, ckpt_calls, checkpoint_file, best_file,
                   events, val_history>>

(* one batch of validate(): forward and metric only *)
ValBatch ==
    /\ pc = "validate"
    /\ batch_i < ValBatches
    /\ batch_i' = batch_i + 1
    /\ events' = Append(events, "validate")
    /\ UNCHANGED <<pc, config, cfgVars, splitVars, lrVars, testVars, epoch, model, mae_error,
                   best_mae_error, is_best, ckpt_calls, checkpoint_file, best_file,
                   val_history>>

(* validate() returns mae_errors.avg; with qm9 it first reads `data` and   *)
(* `output` of the last batch, which are unbound when there was no batch.  *)
ValDone ==
    /\ pc = "validate"
    /\ batch_i = ValBatches
    /\ IF config["task"].dataset = "qm9" /\ ValBatches = 0
       THEN /\ pc' = "NameError"
            /\ UNCHANGED <<mae_error, val_history>>
       ELSE /\ \E m \in MetricValues :
                  /\ mae_error' = m
                  /\ val_history' = Append(val_history, m)
            /\ pc' = "sched_step"
    /\ UNCHANGED <<config, cfgVars, splitVars, lrVars, testVars, epoch, batch_i, model,
                   best_mae_error, is_best, ckpt_calls, checkpoint_file, best_file, events>>

(* scheduler.step() *)
SchedulerStep ==
    /\ pc = "sched_step"
    /\ StepScheduler
    /\ pc' = IF lr_mult'.ok THEN "checkpoint" ELSE lr_mult'.err
    /\ events' = Append(events, "scheduler_step")
    /\ UNCHANGED <<config, cfgVars, splitVars, testVars, epoch, batch_i, model, mae_error,
                   best_mae_error, is_best, ckpt_calls, checkpoint_file, best_file,
                   val_history>>

(* is_best, best_mae_error, save_checkpoint(...) *)
Checkpoint ==
    /\ pc = "checkpoint"
    /\ LET type  == config["task"].type
           best  == IsBest(type, mae_error, best_mae_error)
           nb    == NewBest(type, mae_error, best_mae_error)
           state == CheckpointRecord(epoch, model, nb)
       IN  /\ is_best' = best
           /\ best_mae_error' = nb
           /\ ckpt_calls' = Append(ckpt_calls, [state |-> state, is_best |-> best])
           /\ checkpoint_file' = save_checkpoint_file(state)
           /\ best_file' = save_checkpoint_best(state, best, best_file)
    /\ events' = Append(events, "save_checkpoint")
    /\ pc' = "loop"
    /\ UNCHANGED <<config, cfgVars, splitVars, lrVars, testVars, epoch, batch_i, model,
                   mae_error, val_history>>

(* torch.load(model_best.pth.tar); model.load_state_dict(...); validate(test=True) begins *)
LoadBest ==
    /\ pc = "load_best"
    /\ IF best_file = <<>>
       THEN /\ pc' = "FileNotFoundError"
            /\ model' = model
       ELSE /\ pc' = "test"
            /\ model' = best_file[1].state_dict
    /\ batch_i' = 0
    /\ test_targets' = <<>>
    /\ test_preds' = <<>>
    /\ test_cif_ids' = <<>>
    /\ UNCHANGED <<config, cfgVars, splitVars, lrVars, csv_rows, epoch, mae_error,
                   best_mae_error, is_best, ckpt_calls, checkpoint_file, best_file,
                   events, val_history>>

(* one batch of validate(test=True): predictions and targets are collected *)
TestBatch ==
    /\ pc = "test"
    /\ batch_i < TestBatches
    /\ LET samples == BatchSamples(test_dataset, config["optim"].batch_size, batch_i)
       IN  /\ test_preds' = test_preds \o [r \in DOMAIN samples |-> PredOf(model, samples[r])]
           /\ test_targets' = test_targets \o [r \in DOMAIN samples |-> TargetOf(samples[r])]
    /\ batch_i' = batch_i + 1
    /\ events' = Append(events, "test")
    /\ UNCHANGED <<pc, config, cfgVars, splitVars, lrVars, test_cif_ids, csv_rows, epoch, model,
                   mae_error, best_mae_error, is_best, ckpt_calls, checkpoint_file, best_file,
                   val_history>>

(* python zip: as long as the shortest argument *)
Zip3(a, b, c) ==
    LET n == SetMin({Len(a), Len(b), Len(c)})
    IN  [r \in 1..n |-> <<a[r], b[r], c[r]>>]

(* the end of validate(test=True): the qm9 print, then the CSV *)
TestDone ==
    /\ pc = "test"
    /\ batch_i = TestBatches
    /\ IF config["task"].dataset = "qm9" /\ TestBatches = 0
       THEN /\ pc' = "NameError"
            /\ csv_rows' = csv_rows
       ELSE /\ csv_rows' = Zip3(test_cif_ids, test_targets, test_preds)
            /\ pc' = "done"
    /\ UNCHANGED <<config, cfgVars, splitVars, lrVars, test_targets, test_preds, test_cif_ids,
                   loopVars>>

Next ==
    \/ LoopHead \/ TrainBatch \/ TrainDone \/ ValBatch \/ ValDone
    \/ SchedulerStep \/ Checkpoint \/ LoadBest \/ TestBatch \/ TestDone

Spec == Init /\ [][Next]_vars


-----------------------------------------------------------------------------
(* Properties of the training loop *)

Regression == config["task"].type = "regression"
MaxEpochsCfg == config["optim"].max_epochs

(* epochs whose save_checkpoint call has been made *)
EpochsSaved ==
    IF pc \in {"train", "validate", "sched_step", "checkpoint"} THEN epoch
    ELSE IF pc = "loop" THEN epoch + 1
    ELSE MaxEpochsCfg

(* best-so-far over the initial value and the first j validation metrics *)
BestSoFar(j) ==
    LET S == {InitBest} \cup {val_history[i] : i \in 1..j}
    IN  IF Regression THEN SetMin(S) ELSE SetMax(S)

Improves(m, best) == IF Regression THEN m < best ELSE m > best

\* C4: in every epoch is_best is computed against the best-so-far held
\* before that epoch: strictly smaller metric for regression, strictly
\* larger for any other task type; best-so-far then becomes the min
\* (regression) or max (otherwise) of the two.
C4_IsBestAgainstPreviousBest ==
    [][(pc = "checkpoint" /\ pc' = "loop") =>
          /\ Regression =>
                /\ is_best' = (mae_error < best_mae_error)
                /\ best_mae_error' \in {mae_error, best_mae_error}
                /\ best_mae_error' <= mae_error /\ best_mae_error' <= best_mae_error
          /\ ~Regression =>
                /\ is_best' = (mae_error > best_mae_error)
                /\ best_mae_error' \in {mae_error, best_mae_error}
                /\ best_mae_error' >= mae_error /\ best_mae_error' >= best_mae_error]_vars

C4_Witness ==
    /\ pc = "loop"
    /\ Len(ckpt_calls) = 3
    /\ ckpt_calls[1].is_best /\ ~ckpt_calls[2].is_best /\ ckpt_calls[3].is_best
    /\ val_history = <<2, 2, 1>>
    /\ best_mae_error = 1

\* C5: for every task type, every max_epochs >= 1 and every sequence of
\* validation metrics, once all epochs have completed a best checkpoint has
\* been written, so the reload of the best checkpoint succeeds and the run
\* reaches the test evaluation.
C5_BestCheckpointWritten ==
    (MaxEpochsCfg >= 1 /\ pc \notin {"loop", "train", "validate", "sched_step", "checkpoint"}) =>
        /\ best_file # <<>>
        /\ pc # "FileNotFoundError"

\* C6: save_checkpoint is invoked exactly once per epoch, with a record
\* whose epoch field is the 1-based epoch number and whose best_mae_error is
\* the already-updated best-so-far; the call is marked best only if that
\* epoch's validation metric improved on the best-so-far of all previous
\* epochs.
C6_OneCheckpointPerEpoch ==
    /\ Len(ckpt_calls) = EpochsSaved
    /\ \A j \in 1..Len(ckpt_calls) :
          /\ ckpt_calls[j].state.epoch = j
          /\ ckpt_calls[j].state.best_mae_error = BestSoFar(j)
          /\ ckpt_calls[j].is_best => Improves(val_history[j], BestSoFar(j - 1))

C6_Witness ==
    /\ pc = "done"
    /\ ~Regression
    /\ Len(ckpt_calls) = 3
    /\ ~ckpt_calls[1].is_best /\ ckpt_calls[2].is_best /\ ~ckpt_calls[3].is_best

\* C8: after the final test pass over a test split of M samples the results
\* CSV holds exactly M rows, one (id, target, prediction) triple per test
\* sample in loader order, target and prediction taken from the lists
\* collected during the pass.
C8_CsvRowPerTestSample ==
    pc = "done" =>
        /\ Len(test_targets) = Cardinality(test_dataset)
        /\ Len(test_preds) = Cardinality(test_dataset)
        /\ Len(csv_rows) = Cardinality(test_dataset)
        /\ \A r \in 1..Len(csv_rows) :
              /\ csv_rows[r][2] = test_targets[r]
              /\ csv_rows[r][3] = test_preds[r]
              /\ csv_rows[r][2] = TargetOf(SetMin(test_dataset) + r - 1)

(* the step main() takes i-th, from the sizes of the loaders *)
ExpectedEvent(i) ==
    LET per == TrainBatches + ValBatches + 2
        e   == (i - 1) \div per
        pos == (i - 1) % per
    IN  IF e >= MaxEpochsCfg THEN "test"
        ELSE IF pos < TrainBatches THEN "train"
        ELSE IF pos < TrainBatches + ValBatches THEN "validate"
        ELSE IF pos = TrainBatches + ValBatches THEN "scheduler_step"
        ELSE "save_checkpoint"

CountOf(ev) == Cardinality({i \in 1..Len(events) : events[i] = ev})

\* C9: the scheduler is stepped exactly once per epoch, after the epoch's
\* whole validation pass and before the next epoch's first training batch,
\* never during a training pass, a validation pass or the test phase; within
\* an epoch the order is train pass, validation pass, scheduler step,
\* checkpoint save, and the test phase comes only after the last epoch's
\* checkpoint save.
C9_SchedulerStepOrder ==
    /\ \A i \in 1..Len(events) : events[i] = ExpectedEvent(i)
    /\ last_epoch = CountOf("scheduler_step")
    /\ CountOf("scheduler_step") \in {EpochsSaved, EpochsSaved + 1}
    /\ CountOf("scheduler_step") = EpochsSaved + 1 => pc = "checkpoint"
    /\ CountOf("test") > 0 => CountOf("save_checkpoint") = MaxEpochsCfg

C9_Witness ==
    /\ pc = "done"
    /\ MaxEpochsCfg = 2
    /\ TrainBatches = 2 /\ ValBatches = 2 /\ TestBatches = 2
    /\ last_epoch = 2
    /\ Len(events) = 14

(* the earliest epoch (1-based) among the first k whose metric is the minimum *)
EarliestMin(k) ==
    LET lo == SetMin({val_history[i] : i \in 1..k})
    IN  SetMin({i \in 1..k : val_history[i] = lo})

(* the model parameters at the end of epoch e (1-based): one optimizer step per batch *)
ParamsOfEpoch(e) == e * TrainBatches

LastBestCall ==
    LET B == {j \in 1..Len(ckpt_calls) : ckpt_calls[j].is_best}
    IN  ckpt_calls[SetMax(B)]

\* C10: for a regression task, after k >= 1 completed epochs of which at
\* least one had a validation metric below the initial 1e10, best_mae_error
\* is the minimum of the k metrics, and the most recent record marked best
\* holds the parameters of the earliest epoch that attained the minimum (a
\* later tie does not replace it); the test phase evaluates those parameters.
C10_BestIsEarliestMinimum ==
    LET k == Len(ckpt_calls)
    IN  (Regression /\ k >= 1 /\ \E i \in 1..k : val_history[i] < InitBest) =>
            /\ best_mae_error = SetMin({val_history[i] : i \in 1..k})
            /\ LastBestCall.state.epoch = EarliestMin(k)
            /\ LastBestCall.state.state_dict = ParamsOfEpoch(EarliestMin(k))
            /\ best_file = <<LastBestCall.state>>
            /\ pc \in {"test", "done"} =>
                  /\ model = ParamsOfEpoch(EarliestMin(k))
                  /\ \A r \in 1..Len(test_preds) :
                        test_preds[r] = PredOf(ParamsOfEpoch(EarliestMin(k)),
                                               SetMin(test_dataset) + r - 1)

C10_Witness ==
    /\ pc = "done"
    /\ Regression
    /\ val_history = <<2, 1, 1>>
    /\ Len(test_preds) = 2
    /\ model = 2 * TrainBatches
    /\ model # 3 * TrainBatches


====
